---- MODULE Spec2Model ----
(***************************************************************************)
(* Redundant-array elimination on a dataflow state graph:                  *)
(* RedundantArray (forward, removes the first access node of a copy) and   *)
(* RedundantSecondArray (backward, removes the second access node), from   *)
(* dace/transformation/dataflow/redundant_array.py, together with the      *)
(* driver cycle match -> can_be_applied -> apply.                          *)
(***************************************************************************)
EXTENDS Integers, Sequences, FiniteSets, TLC

VARIABLES
    arrays,     \* sdfg.arrays: container name -> descriptor
    others,     \* access nodes of the other states: container name -> count
    ninfo,      \* node object -> [kind, data]
    nodes,      \* graph.nodes(): the state's node list
    edges,      \* the state's edge list, each edge carrying its memlet
    strict,     \* the strict flag the driver passes to can_be_applied
    pc,         \* driver position
    cand,       \* candidate of the current match/apply cycle
    result,     \* outcome of the last can_be_applied
    todo,       \* edges the running apply still has to visit
    loc,        \* locals of the running apply
    pre,        \* graph as it was when the last check / apply started
    hist        \* applies completed so far, transient data nodes at the start

vars == <<arrays, others, ninfo, nodes, edges, strict, pc, cand, result, todo, loc, pre, hist>>

\* Largest extent of a dimension in the enumerated rank-1 graphs.
MaxExt == 3
\* Largest number of access nodes another state holds for one container.
MaxOcc == 1

(***************************************************************************)
(* Region algebra (dace.subsets).  A region is [ind, r]: r holds one       *)
(* inclusive interval <<lo, hi>> per dimension; ind marks the Indices      *)
(* variant (a point).  NoSubset is an absent region (None).                *)
(***************************************************************************)
NoSubset == [ind |-> FALSE, r |-> <<>>]

Rng(r) == [ind |-> FALSE, r |-> r]

Idx(p) == [ind |-> TRUE, r |-> [i \in 1..Len(p) |-> <<p[i], p[i]>>]]

\* Python truthiness of a region: None and zero-length regions are falsy.
Absent(s) == Len(s.r) = 0

dims(s) == Len(s.r)

RECURSIVE Prod(_)
Prod(q) == IF q = <<>> THEN 1 ELSE Head(q) * Prod(Tail(q))

size(s) == [i \in 1..Len(s.r) |-> IF s.ind THEN 1 ELSE s.r[i][2] - s.r[i][1] + 1]

num_elements(s) == IF s.ind THEN 1 ELSE Prod(size(s))

min_element(s) == [i \in 1..Len(s.r) |-> s.r[i][1]]

\* offset is defined on regions of equal dimensionality only.
CanOffset(s, ref) == dims(s) = dims(ref)

offset(s, ref, negative) ==
    [s EXCEPT !.r = [i \in 1..Len(s.r) |->
        IF negative THEN <<s.r[i][1] - ref.r[i][1], s.r[i][2] - ref.r[i][1]>>
                    ELSE <<s.r[i][1] + ref.r[i][1], s.r[i][2] + ref.r[i][1]>>]]

covers(a, b) ==
    \A i \in 1..Len(a.r) : a.r[i][1] <= b.r[i][1] /\ b.r[i][2] <= a.r[i][2]

compose(outer, inner) ==
    [ind |-> inner.ind,
     r |-> [i \in 1..Len(outer.r) |->
              <<outer.r[i][1] + inner.r[i][1], outer.r[i][1] + inner.r[i][2]>>]]

\* The whole of a container of the given shape.
Full(shape) == Rng([i \in 1..Len(shape) |-> <<0, shape[i] - 1>>])

Within(s, shape) ==
    /\ dims(s) = Len(shape)
    /\ \A i \in 1..Len(shape) : 0 <= s.r[i][1] /\ s.r[i][1] <= s.r[i][2] /\ s.r[i][2] < shape[i]

(***************************************************************************)
(* Graph model (dace.sdfg).  Connector 0 is None; on a scope node the      *)
(* in-connector k ("IN_k") pairs with the out-connector k ("OUT_k").       *)
(***************************************************************************)
Edge(id, src, sconn, dst, dconn, data, subset, other) ==
    [id |-> id, src |-> src, sconn |-> sconn, dst |-> dst, dconn |-> dconn,
     data |-> data, subset |-> subset, other |-> other]

IsAccess(n) == ninfo[n].kind = "access"

IsScope(n) == ninfo[n].kind \in {"entry", "exit"}

desc(n) == arrays[ninfo[n].data]

in_edges(E, n) == SelectSeq(E, LAMBDA e : e.dst = n)

out_edges(E, n) == SelectSeq(E, LAMBDA e : e.src = n)

in_degree(E, n) == Len(in_edges(E, n))

out_degree(E, n) == Len(out_edges(E, n))

edges_between(E, a, b) == SelectSeq(E, LAMBDA e : e.src = a /\ e.dst = b)

Elems(q) == {q[i] : i \in 1..Len(q)}

IndexOf(q, x) == CHOOSE i \in 1..Len(q) : q[i] = x

remove_edge(E, e) == SelectSeq(E, LAMBDA x : x.id # e.id)

add_edge(E, e) == Append(E, e)

\* remove_node drops the node and every edge still incident to it.
remove_node_nodes(N, n) == SelectSeq(N, LAMBDA x : x # n)

remove_node_edges(E, n) == SelectSeq(E, LAMBDA e : e.src # n /\ e.dst # n)

\* memlet_path(e), the part before e: through scope nodes, OUT_k back to IN_k.
RECURSIVE PathBefore(_, _)
PathBefore(E, e) ==
    IF IsScope(e.src) /\ e.sconn # 0
        THEN LET prev == SelectSeq(E, LAMBDA x : x.dst = e.src /\ x.dconn = e.sconn)
             IN  IF prev = <<>> THEN {} ELSE {prev[1].id} \cup PathBefore(E, prev[1])
        ELSE {}

\* memlet_path(e), the part after e: through scope nodes, IN_k on to OUT_k.
RECURSIVE PathAfter(_, _)
PathAfter(E, e) ==
    IF IsScope(e.dst) /\ e.dconn # 0
        THEN LET next == SelectSeq(E, LAMBDA x : x.src = e.dst /\ x.sconn = e.dconn)
             IN  IF next = <<>> THEN {} ELSE {next[1].id} \cup PathAfter(E, next[1])
        ELSE {}

memlet_path(E, e) == PathBefore(E, e) \cup {e.id} \cup PathAfter(E, e)

\* memlet_tree(e) for an edge leaving an access node: e and everything that
\* fans out from it through scope nodes.
RECURSIVE TreeBelow(_, _)
TreeBelow(E, e) ==
    IF IsScope(e.dst) /\ e.dconn # 0
        THEN LET kids == {x \in Elems(E) : x.src = e.dst /\ x.sconn = e.dconn}
             IN  UNION {{x.id} \cup TreeBelow(E, x) : x \in kids}
        ELSE {}

memlet_tree(E, e) == {e.id} \cup TreeBelow(E, e)

EdgeById(E, id) == CHOOSE e \in Elems(E) : e.id = id

(***************************************************************************)
(* Region objects.  A local of can_be_applied / apply holds a reference to *)
(* a region object: the memlet field that holds it (eid, f), or a private  *)
(* object (eid = 0) carrying its own value.  Mutating methods act on the   *)
(* object, so they are threaded through the edge list E.                   *)
(***************************************************************************)
FieldRef(eid, f) == [eid |-> eid, f |-> f, val |-> NoSubset]

Val(E, o) == IF o.eid = 0 THEN o.val ELSE EdgeById(E, o.eid)[o.f]

SetField(E, eid, f, v) ==
    [i \in 1..Len(E) |-> IF E[i].id = eid THEN [E[i] EXCEPT ![f] = v] ELSE E[i]]

\* Mutant of dcpy: no copy is taken, the local aliases the memlet's region.
dcpy_alias(E, o) == o

\* copy.deepcopy of a region object: a fresh private object.
dcpy(E, o) == [eid |-> 0, f |-> "", val |-> Val(E, o)]

\* o.offset(ref, negative), in place: the edge list with the object updated.
offset_in_place(E, o, refv, negative) ==
    IF o.eid = 0 THEN E ELSE SetField(E, o.eid, o.f, offset(Val(E, o), refv, negative))

offset_local(E, o, refv, negative) ==
    IF o.eid = 0 THEN [o EXCEPT !.val = offset(o.val, refv, negative)] ELSE o

(***************************************************************************)
(* RedundantArray.can_be_applied                                           *)
(***************************************************************************)
\* Access nodes of all states that carry the descriptor of node n.
occurrences(n) ==
    Cardinality({i \in 1..Len(nodes) : IsAccess(nodes[i]) /\ ninfo[nodes[i]].data = ninfo[n].data})
        + others[ninfo[n].data]

\* The candidate's node ids resolve to two access nodes of graph.nodes().
Resolves(c) ==
    /\ c.in \in 1..Len(nodes) /\ c.out \in 1..Len(nodes)
    /\ IsAccess(nodes[c.in]) /\ IsAccess(nodes[c.out])

\* Mutant: the strict-mode coverage test is skipped.
RA_strict_skip(in_array, out_array) == "true"

\* Strict mode: the memlet of the connecting edge covers the removed array.
RA_strict_check(in_array, out_array) ==
    LET eb == edges_between(edges, in_array, out_array) IN
    IF eb = <<>> THEN "error"
    ELSE IF eb[1].subset = NoSubset THEN "error"
    ELSE LET sz == size(eb[1].subset)
             sh == desc(in_array).shape
             n  == IF Len(sz) < Len(sh) THEN Len(sz) ELSE Len(sh)
         IN  IF \E i \in 1..n : sz[i] # sh[i] THEN "false" ELSE "true"

RA_occurrences_check(in_array) == occurrences(in_array) > 1

RA_can_be_applied(c, s) ==
    IF ~Resolves(c) THEN "error"
    ELSE LET in_array  == nodes[c.in]
             out_array == nodes[c.out]
             in_desc   == desc(in_array)
             out_desc  == desc(out_array)
         IN  IF out_degree(edges, in_array) # 1 THEN "false"
             ELSE IF ~in_desc.transient THEN "false"
             ELSE IF in_desc.storage # out_desc.storage THEN "false"
             ELSE IF in_desc.kind # out_desc.kind THEN "false"
             ELSE IF RA_occurrences_check(in_array) THEN "false"
             ELSE IF in_desc.shape # out_desc.shape THEN "false"
             ELSE IF s THEN RA_strict_check(in_array, out_array)
             ELSE "true"

(***************************************************************************)
(* RedundantSecondArray: the input (first) and output (second) array       *)
(* subsets of the connecting memlet, a missing one synthesized from the    *)
(* other.  Yields [ok, E, inp, out]: ok is FALSE where the code raises.    *)
(***************************************************************************)
RSA_subsets(E, in_array, out_array) ==
    LET memlet == edges_between(E, in_array, out_array)[1]
        first  == memlet.data = ninfo[in_array].data
        inp0   == FieldRef(memlet.id, IF first THEN "subset" ELSE "other")
        out0   == FieldRef(memlet.id, IF first THEN "other" ELSE "subset")
    IN  IF Absent(Val(E, inp0)) /\ Val(E, out0) = NoSubset
            THEN [ok |-> FALSE, E |-> E, inp |-> inp0, out |-> out0]
        ELSE LET inp1 == IF Absent(Val(E, inp0)) THEN dcpy(E, out0) ELSE inp0
                 E1   == IF Absent(Val(E, inp0))
                            THEN offset_in_place(E, inp1, Val(E, out0), TRUE)
                            ELSE E
                 inp2 == IF Absent(Val(E, inp0))
                            THEN offset_local(E, inp1, Val(E, out0), TRUE)
                            ELSE inp1
                 none == Absent(Val(E1, out0))
                 out1 == IF none THEN dcpy(E1, inp2) ELSE out0
                 E2   == IF none THEN offset_in_place(E1, out1, Val(E1, inp2), TRUE) ELSE E1
                 out2 == IF none THEN offset_local(E1, out1, Val(E1, inp2), TRUE) ELSE out1
             IN  [ok |-> TRUE, E |-> E2, inp |-> inp2, out |-> out2]

\* Step 3 of can_be_applied: every output edge of the second array, in order.
RECURSIVE RSA_cover_loop(_, _, _)
RSA_cover_loop(q, out_array, out_subset) ==
    IF q = <<>> THEN "true"
    ELSE LET e == Head(q) IN
         IF e.data # ninfo[out_array].data /\ Absent(e.other) THEN "error"
         ELSE LET subset == IF e.data = ninfo[out_array].data THEN e.subset ELSE e.other IN
              IF subset = NoSubset \/ dims(subset) # dims(out_subset) THEN "error"
              ELSE IF ~covers(out_subset, subset) THEN "false"
              ELSE RSA_cover_loop(Tail(q), out_array, out_subset)

\* Step 2 of can_be_applied: the copied data are equal in size to the second array.
RSA_shortcut(inp_subset, out_desc) == num_elements(inp_subset) = Prod(out_desc.shape)

\* Mutant: the whole-program occurrence scan is skipped.
RSA_occurrences_skip(out_array) == FALSE

RSA_occurrences_check(out_array) == occurrences(out_array) > 1

\* Yields [res, E]: the outcome and the edge list as the call leaves it.
RSA_can_be_applied(c, s) ==
    IF ~Resolves(c) THEN [res |-> "error", E |-> edges]
    ELSE LET in_array  == nodes[c.in]
             out_array == nodes[c.out]
             in_desc   == desc(in_array)
             out_desc  == desc(out_array)
         IN  IF in_degree(edges, out_array) # 1 THEN [res |-> "false", E |-> edges]
             ELSE IF ~out_desc.transient THEN [res |-> "false", E |-> edges]
             ELSE IF in_desc.storage # out_desc.storage THEN [res |-> "false", E |-> edges]
             ELSE IF in_desc.kind # out_desc.kind THEN [res |-> "false", E |-> edges]
             ELSE IF RSA_occurrences_check(out_array) THEN [res |-> "false", E |-> edges]
             ELSE IF edges_between(edges, in_array, out_array) = <<>>
                      THEN [res |-> "error", E |-> edges]
             ELSE LET ss == RSA_subsets(edges, in_array, out_array) IN
                  IF ~ss.ok THEN [res |-> "error", E |-> ss.E]
                  ELSE IF RSA_shortcut(Val(ss.E, ss.inp), out_desc)
                           THEN [res |-> "true", E |-> ss.E]
                  ELSE [res |-> RSA_cover_loop(out_edges(ss.E, out_array), out_array,
                                               Val(ss.E, ss.out)),
                        E |-> ss.E]

(***************************************************************************)
(* RedundantArray.apply, one incoming edge of in_array per step            *)
(***************************************************************************)
\* Mutant: the edge is re-added with its old endpoint.
RA_redirect_stale(e, out_array) == e

\* The edge that add_edge creates: same source, connectors and memlet, ending at out_array.
RA_redirect(e, out_array) == [e EXCEPT !.dst = out_array]

\* Every edge of the path that names in_array's container now names out_array's.
RA_rename(E, path, in_array, out_array) ==
    [i \in 1..Len(E) |->
        IF E[i].id \in path /\ E[i].data = ninfo[in_array].data
            THEN [E[i] EXCEPT !.data = ninfo[out_array].data]
            ELSE E[i]]

RA_apply_edge(E, eid, in_array, out_array) ==
    LET e  == EdgeById(E, eid)
        E1 == RA_rename(E, memlet_path(E, e), in_array, out_array)
        e1 == EdgeById(E1, eid)
    IN  add_edge(remove_edge(E1, e1), RA_redirect(e1, out_array))

(***************************************************************************)
(* RedundantSecondArray.apply, one outgoing edge of out_array per step     *)
(***************************************************************************)
\* Mutant: the destination-relative offset is added instead of stripped.
RSA_strip_added(subset, out_subset) == offset(subset, out_subset, FALSE)

\* (c+d) - (c:c+b) = (d)
RSA_strip(subset, out_subset) == offset(subset, out_subset, TRUE)

\* (0, a:b)(d) = (0, a+d), or an offset of the point for Indices.
RSA_reframe(inp_subset, subset) ==
    IF inp_subset.ind THEN offset(inp_subset, subset, FALSE)
                      ELSE compose(inp_subset, subset)

\* The region rewrite of one edge: [stage, mid, new].  stage 0: offset raised,
\* nothing written; stage 1: offset written in place, the recomposition raised;
\* stage 2: the recomposed region is stored.
RSA_rewrite(subset, inp_subset, out_subset) ==
    IF subset = NoSubset \/ ~CanOffset(subset, out_subset)
        THEN [stage |-> 0, mid |-> subset, new |-> subset]
    ELSE LET mid == RSA_strip(subset, out_subset) IN
         IF dims(inp_subset) # dims(mid)
             THEN [stage |-> 1, mid |-> mid, new |-> mid]
             ELSE [stage |-> 2, mid |-> mid, new |-> RSA_reframe(inp_subset, mid)]

\* Which region of the edge is rewritten: its subset when it names out_array's
\* container, else its other_subset when it has one, else none.
RSA_field(pe, out_array) ==
    IF pe.data = ninfo[out_array].data THEN "subset"
    ELSE IF ~Absent(pe.other) THEN "other"
    ELSE "none"

\* The loop over the memlet tree of one edge, root first.  Yields [ok, E].
RECURSIVE RSA_rewrite_tree(_, _, _, _, _, _)
RSA_rewrite_tree(E, q, in_array, out_array, inp_subset, out_subset) ==
    IF q = <<>> THEN [ok |-> TRUE, E |-> E]
    ELSE LET pe == EdgeById(E, Head(q))
             f  == RSA_field(pe, out_array)
         IN  IF f = "none"
                 THEN RSA_rewrite_tree(E, Tail(q), in_array, out_array, inp_subset, out_subset)
             ELSE LET E1 == IF pe.data = ninfo[out_array].data
                                THEN SetField(E, pe.id, "data", ninfo[in_array].data)
                                ELSE E
                      w  == RSA_rewrite(pe[f], inp_subset, out_subset)
                  IN  IF w.stage = 0 THEN [ok |-> FALSE, E |-> E1]
                      ELSE IF w.stage = 1
                          THEN [ok |-> FALSE, E |-> SetField(E1, pe.id, f, w.mid)]
                      ELSE RSA_rewrite_tree(SetField(E1, pe.id, f, w.new), Tail(q),
                                            in_array, out_array, inp_subset, out_subset)

\* The memlet tree of e as the loop visits it: e, then the edges below it.
TreeOrder(E, e) ==
    <<e.id>> \o SelectSeq([i \in 1..Len(E) |-> E[i].id],
                          LAMBDA id : id # e.id /\ id \in memlet_tree(E, e))

\* Mutant: the edge keeps its source.
RSA_redirect_stale(e, in_array) == e

\* The edge that add_edge creates: same memlet, connectors and destination, leaving in_array.
RSA_redirect(e, in_array) == [e EXCEPT !.src = in_array]

RSA_apply_edge(E, eid, in_array, out_array, inp_subset, out_subset) ==
    LET e  == EdgeById(E, eid)
        t  == RSA_rewrite_tree(E, TreeOrder(E, e), in_array, out_array, inp_subset, out_subset)
        e1 == EdgeById(t.E, eid)
    IN  IF ~t.ok THEN t
        ELSE [ok |-> TRUE, E |-> add_edge(remove_edge(t.E, e1), RSA_redirect(e1, in_array))]

Ids(q) == [i \in 1..Len(q) |-> q[i].id]

\* Mutant: the edge list is walked while it is being mutated, so every other edge is skipped.
RSA_worklist_live(E, out_array) ==
    LET q == Ids(out_edges(E, out_array))
    IN  [i \in 1..((Len(q) + 1) \div 2) |-> q[2 * i - 1]]

\* for e in graph.out_edges(out_array): the list is built before the loop runs.
RSA_worklist(E, out_array) == Ids(out_edges(E, out_array))

\* Mutant of RA_worklist: only the first inbound edge is visited.
RA_worklist_first(E, in_array) == SubSeq(Ids(in_edges(E, in_array)), 1, 1)

RA_worklist(E, in_array) == Ids(in_edges(E, in_array))

(***************************************************************************)
(* Initial graphs                                                          *)
(***************************************************************************)
Names == {"A", "B", "C", "D"}

Desc(shape, storage, kind, transient) ==
    [shape |-> shape, storage |-> storage, kind |-> kind, transient |-> transient]

Node(kind, data) == [kind |-> kind, data |-> data]

\* The rank-1 ranges inside a container of extent n.
Ranges1(n) == {Rng(<<p>>) : p \in {q \in (0..(n - 1)) \X (0..(n - 1)) : q[1] <= q[2]}}

Exts == (MaxExt - 1)..MaxExt

\* Memlets of a copy between an access node of container x (extent nx) and one
\* of container y (extent ny): named after either side, with or without the
\* other side's region, as ranges or as points, or with no region at all.
CopyMemlets(x, nx, y, ny) ==
    {[data |-> x, subset |-> s, other |-> o] : s \in Ranges1(nx), o \in {NoSubset} \cup Ranges1(ny)}
    \cup {[data |-> y, subset |-> s, other |-> o] : s \in Ranges1(ny), o \in {NoSubset} \cup Ranges1(nx)}
    \cup {[data |-> x, subset |-> Idx(<<p>>), other |-> o] :
            p \in 0..(nx - 1), o \in {NoSubset} \cup {Idx(<<q>>) : q \in 0..(ny - 1)}}
    \cup {[data |-> x, subset |-> NoSubset, other |-> o] : o \in {NoSubset, Full(<<ny>>)}}

\* A copy moves as many elements as it stores, and a side without a region of
\* its own is large enough for the elements moved.
ValidCopy(m, nx, ny) ==
    /\ Absent(m.subset) \/ Absent(m.other) \/ num_elements(m.subset) = num_elements(m.other)
    /\ Absent(m.subset) \/ ~Absent(m.other) \/ (num_elements(m.subset) <= nx /\ num_elements(m.subset) <= ny)
    /\ ~Absent(m.subset) \/ Absent(m.other) \/ (num_elements(m.other) <= nx /\ num_elements(m.other) <= ny)

ValidCopies(x, nx, y, ny) == {m \in CopyMemlets(x, nx, y, ny) : ValidCopy(m, nx, ny)}

\* t0 -> mx -> n1 -> n2 -> me -> t1, t0 -> n1, n2 -> n3: a tasklet writes B
\* through a map exit and directly, B is copied to C, C is read inside a map
\* and copied on to n3.
Chain(dB, dC, dD, c3, m3, s4, m6, occ) ==
    [arrays |-> [a \in Names |-> IF a = "B" THEN dB ELSE IF a = "C" THEN dC ELSE dD],
     others |-> occ,
     ninfo  |-> [n \in {"t0", "mx", "n1", "n2", "me", "t1", "n3"} |->
                    CASE n = "t0" -> Node("code", "")
                      [] n = "mx" -> Node("exit", "")
                      [] n = "n1" -> Node("access", "B")
                      [] n = "n2" -> Node("access", "C")
                      [] n = "me" -> Node("entry", "")
                      [] n = "t1" -> Node("code", "")
                      [] n = "n3" -> Node("access", c3)],
     nodes  |-> <<"t0", "mx", "n1", "n2", "me", "t1", "n3">>,
     edges  |-> <<Edge(1, "t0", 1, "mx", 1, "B", Rng(<<<<0, 0>>>>), NoSubset),
                  Edge(2, "mx", 1, "n1", 0, "B", Full(dB.shape), NoSubset),
                  Edge(7, "t0", 2, "n1", 0, "B", Rng(<<<<1, 1>>>>), NoSubset),
                  Edge(3, "n1", 0, "n2", 0, m3.data, m3.subset, m3.other),
                  Edge(6, "n2", 0, "n3", 0, m6.data, m6.subset, m6.other),
                  Edge(4, "n2", 0, "me", 1, "C", s4, NoSubset),
                  Edge(5, "me", 1, "t1", 1, "C", Rng(<<<<s4.r[1][1], s4.r[1][1]>>>>), NoSubset)>>]

NoOcc == [a \in Names |-> 0]

\* Memlets of the copy n2 -> n3 (container C to container D of the same extent).
OnwardMemlets(nC, s4) ==
    {[data |-> "D", subset |-> Full(<<nC>>), other |-> NoSubset]}
    \cup {[data |-> "C", subset |-> s, other |-> NoSubset] : s \in {Full(<<nC>>), s4}}
    \cup {[data |-> "D", subset |-> offset(s, s, TRUE), other |-> s] : s \in {Full(<<nC>>), s4}}

GateMemlets(nB, nC) ==
    {[data |-> "B", subset |-> Full(<<nB>>), other |-> NoSubset],
     [data |-> "B", subset |-> Rng(<<<<0, 0>>>>), other |-> Rng(<<<<1, 1>>>>)],
     [data |-> "C", subset |-> Full(<<nC>>), other |-> NoSubset]}

R2(a, b, c, d) == Rng(<<<<a, b>>, <<c, d>>>>)

\* a -> b -> c -> tr -> d and a -> c -> tr -> d of redundant_copy_test.py.
TestNodes ==
    [n \in {"a", "b", "c", "tr", "d"} |->
        CASE n = "a" -> Node("access", "A")
          [] n = "b" -> Node("access", "B")
          [] n = "c" -> Node("access", "C")
          [] n = "tr" -> Node("code", "")
          [] n = "d" -> Node("access", "D")]

TestArrays(shA, shB, stB, shC, shD) ==
    [x \in Names |->
        CASE x = "A" -> Desc(shA, "Default", "Array", FALSE)
          [] x = "B" -> Desc(shB, stB, "Array", TRUE)
          [] x = "C" -> Desc(shC, "Default", "Array", TRUE)
          [] x = "D" -> Desc(shD, "Default", "Array", FALSE)]

\* test_out: A[3,3] -> B[3,3] -> C[3,3] -> transpose -> D[3,3].
ScenarioA(stB) ==
    [arrays |-> TestArrays(<<3, 3>>, <<3, 3>>, stB, <<3, 3>>, <<3, 3>>),
     others |-> NoOcc,
     ninfo  |-> TestNodes,
     nodes  |-> <<"a", "b", "c", "tr", "d">>,
     edges  |-> <<Edge(1, "a", 0, "b", 0, "A", Full(<<3, 3>>), NoSubset),
                  Edge(2, "b", 0, "c", 0, "B", Full(<<3, 3>>), NoSubset),
                  Edge(3, "c", 0, "tr", 1, "C", Full(<<3, 3>>), NoSubset),
                  Edge(4, "tr", 2, "d", 0, "D", Full(<<3, 3>>), NoSubset)>>]

\* test_out_2: A[3,3] -> C[3,6] (left half), C's right half -> transpose -> D[3,3].
ScenarioB ==
    [arrays |-> TestArrays(<<3, 3>>, <<3, 3>>, "Default", <<3, 6>>, <<3, 3>>),
     others |-> NoOcc,
     ninfo  |-> TestNodes,
     nodes  |-> <<"a", "c", "tr", "d">>,
     edges  |-> <<Edge(1, "a", 0, "c", 0, "A", R2(0, 2, 0, 2), NoSubset),
                  Edge(2, "c", 0, "tr", 1, "C", R2(0, 2, 3, 5), NoSubset),
                  Edge(3, "tr", 2, "d", 0, "D", Full(<<3, 3>>), NoSubset)>>]

\* test_out_3: A[1:5,1:5] -> C[2:6,2:6], C[3:6,2:5] -> transpose -> D[3,3].
ScenarioC ==
    [arrays |-> TestArrays(<<5, 5>>, <<3, 3>>, "Default", <<6, 6>>, <<3, 3>>),
     others |-> NoOcc,
     ninfo  |-> TestNodes,
     nodes  |-> <<"a", "c", "tr", "d">>,
     edges  |-> <<Edge(1, "a", 0, "c", 0, "A", R2(1, 4, 1, 4), R2(2, 5, 2, 5)),
                  Edge(2, "c", 0, "tr", 1, "C", R2(3, 5, 2, 4), NoSubset),
                  Edge(3, "tr", 2, "d", 0, "D", Full(<<3, 3>>), NoSubset)>>]

TestGraphs == {ScenarioA("Default"), ScenarioA("GPU_Global"), ScenarioB, ScenarioC}

NoCand == [rule |-> "", in |-> 0, out |-> 0]

NoLoc == [in |-> "", out |-> "", inp |-> NoSubset, outs |-> NoSubset]

NoPre == [nodes |-> <<>>, edges |-> <<>>]

\* The transient data nodes among N.
TransientData(N) == {n \in Elems(N) : IsAccess(n) /\ desc(n).transient}

InitGraph(g) ==
    /\ arrays = g.arrays
    /\ others = g.others
    /\ ninfo = g.ninfo
    /\ nodes = g.nodes
    /\ edges = g.edges

\* Regions vary; the descriptors satisfy every other precondition.
InitRegions ==
    \E nB \in Exts, nC \in Exts :
        \E s4 \in Ranges1(nC) :
            \E m3 \in ValidCopies("B", nB, "C", nC), m6 \in OnwardMemlets(nC, s4) :
                InitGraph(Chain(Desc(<<nB>>, "Default", "Array", TRUE),
                                Desc(<<nC>>, "Default", "Array", TRUE),
                                Desc(<<nC>>, "Default", "Array", TRUE),
                                "D", m3, s4, m6, NoOcc))

\* Descriptors, occurrences and the container of n3 vary.
InitGates ==
    \E nB \in Exts, nC \in Exts :
        \E v \in {<<"Default", "Array">>, <<"GPU_Global", "Array">>, <<"Default", "Stream">>},
           tB \in BOOLEAN, tC \in BOOLEAN, c3 \in {"D", "B"},
           m3 \in {m \in GateMemlets(nB, nC) : ValidCopy(m, nB, nC)},
           oB \in 0..MaxOcc, oC \in 0..MaxOcc :
            InitGraph(Chain(Desc(<<nB>>, v[1], v[2], tB),
                            Desc(<<nC>>, "Default", "Array", tC),
                            Desc(<<nC>>, "Default", "Array", FALSE),
                            c3, m3, Full(<<nC>>),
                            [data |-> "C", subset |-> Rng(<<<<0, 0>>>>), other |-> NoSubset],
                            [a \in Names |-> IF a = "B" THEN oB ELSE IF a = "C" THEN oC ELSE 0]))

InitTests == \E g \in TestGraphs : InitGraph(g)

\* The rank-2 ranges inside a container of shape <<n, m>>.
Ranges2(n, m) ==
    {R2(p[1], p[2], q[1], q[2]) :
        p \in {x \in (0..(n - 1)) \X (0..(n - 1)) : x[1] <= x[2]},
        q \in {x \in (0..(m - 1)) \X (0..(m - 1)) : x[1] <= x[2]}}

\* a -> c -> tr -> d where the whole of A, of shape shA, is copied into the
\* transient C[2,2], with or without a destination-side region, and rd of C
\* is read.
Reshape(shA, o, rd) ==
    [arrays |-> TestArrays(shA, <<2, 2>>, "Default", <<2, 2>>, <<2, 2>>),
     others |-> NoOcc,
     ninfo  |-> TestNodes,
     nodes  |-> <<"a", "c", "tr", "d">>,
     edges  |-> <<Edge(1, "a", 0, "c", 0, "A", Full(shA), o),
                  Edge(2, "c", 0, "tr", 1, "C", rd, NoSubset),
                  Edge(3, "tr", 2, "d", 0, "D", Full(<<2, 2>>), NoSubset)>>]

\* Copies of four elements into C[2,2], from A[2,2] and from A[1,4].
InitReshape ==
    \E shA \in {<<2, 2>>, <<1, 4>>}, o \in {NoSubset, Full(<<2, 2>>)}, rd \in Ranges2(2, 2) :
        InitGraph(Reshape(shA, o, rd))

Init ==
    /\ InitRegions \/ InitGates \/ InitTests \/ InitReshape
    /\ strict \in BOOLEAN
    /\ pc = "idle"
    /\ cand = NoCand
    /\ result = "false"
    /\ todo = <<>>
    /\ loc = NoLoc
    /\ pre = NoPre
    /\ hist = [applies |-> 0, transients |-> Cardinality(TransientData(nodes))]

(***************************************************************************)
(* The driver: match, check, apply                                         *)
(***************************************************************************)
\* The matcher's candidates: two access nodes joined by an edge, as node ids.
Candidates ==
    {[in |-> IndexOf(nodes, e.src), out |-> IndexOf(nodes, e.dst)] :
        e \in {x \in Elems(edges) : IsAccess(x.src) /\ IsAccess(x.dst)}}

CheckRA ==
    /\ pc = "idle"
    /\ \E c \in Candidates :
        /\ cand' = [rule |-> "RA", in |-> c.in, out |-> c.out]
        /\ result' = RA_can_be_applied(c, strict)
    /\ pc' = "checked"
    /\ UNCHANGED <<hist, arrays, others, ninfo, nodes, edges, strict, todo, loc, pre>>

CheckRSA ==
    /\ pc = "idle"
    /\ \E c \in Candidates :
        /\ cand' = [rule |-> "RSA", in |-> c.in, out |-> c.out]
        /\ result' = RSA_can_be_applied(c, strict).res
        /\ edges' = RSA_can_be_applied(c, strict).E
    /\ pc' = "checked"
    /\ UNCHANGED <<hist, arrays, others, ninfo, nodes, strict, todo, loc, pre>>

\* The driver leaves the match and looks at the next one.
Skip ==
    /\ pc = "checked"
    /\ result # "error"
    /\ pc' = "idle"
    /\ cand' = NoCand
    /\ result' = "false"
    /\ UNCHANGED <<hist, arrays, others, ninfo, nodes, edges, strict, todo, loc, pre>>

RA_apply_begin ==
    /\ pc = "checked" /\ result = "true" /\ cand.rule = "RA"
    /\ pc' = "apply"
    /\ loc' = [NoLoc EXCEPT !.in = nodes[cand.in], !.out = nodes[cand.out]]
    /\ todo' = RA_worklist(edges, nodes[cand.in])
    /\ pre' = [nodes |-> nodes, edges |-> edges]
    /\ UNCHANGED <<hist, arrays, others, ninfo, nodes, edges, strict, cand, result>>

RA_apply_step ==
    /\ pc = "apply" /\ cand.rule = "RA" /\ todo # <<>>
    /\ edges' = RA_apply_edge(edges, Head(todo), loc.in, loc.out)
    /\ todo' = Tail(todo)
    /\ UNCHANGED <<hist, arrays, others, ninfo, nodes, strict, pc, cand, result, loc, pre>>

RA_apply_end ==
    /\ pc = "apply" /\ cand.rule = "RA" /\ todo = <<>>
    /\ nodes' = remove_node_nodes(nodes, loc.in)
    /\ edges' = remove_node_edges(edges, loc.in)
    /\ pc' = "applied"
    /\ hist' = [hist EXCEPT !.applies = @ + 1]
    /\ UNCHANGED <<arrays, others, ninfo, strict, cand, result, todo, loc, pre>>

RSA_apply_begin ==
    /\ pc = "checked" /\ result = "true" /\ cand.rule = "RSA"
    /\ LET ss == RSA_subsets(edges, nodes[cand.in], nodes[cand.out]) IN
        /\ edges' = ss.E
        /\ loc' = [in |-> nodes[cand.in], out |-> nodes[cand.out],
                   inp |-> Val(ss.E, ss.inp), outs |-> Val(ss.E, ss.out)]
    /\ pc' = "apply"
    /\ todo' = RSA_worklist(edges, nodes[cand.out])
    /\ pre' = [nodes |-> nodes, edges |-> edges]
    /\ UNCHANGED <<hist, arrays, others, ninfo, nodes, strict, cand, result>>

RSA_apply_step ==
    /\ pc = "apply" /\ cand.rule = "RSA" /\ todo # <<>>
    /\ LET t == RSA_apply_edge(edges, Head(todo), loc.in, loc.out, loc.inp, loc.outs) IN
        /\ edges' = t.E
        /\ pc' = IF t.ok THEN "apply" ELSE "raised"
    /\ todo' = Tail(todo)
    /\ UNCHANGED <<hist, arrays, others, ninfo, nodes, strict, cand, result, loc, pre>>

RSA_apply_end ==
    /\ pc = "apply" /\ cand.rule = "RSA" /\ todo = <<>>
    /\ nodes' = remove_node_nodes(nodes, loc.out)
    /\ edges' = remove_node_edges(edges, loc.out)
    /\ pc' = "applied"
    /\ hist' = [hist EXCEPT !.applies = @ + 1]
    /\ UNCHANGED <<arrays, others, ninfo, strict, cand, result, todo, loc, pre>>

\* The applicability check is run again for the candidate just applied.
Recheck ==
    /\ pc = "applied"
    /\ result' = IF cand.rule = "RA" THEN RA_can_be_applied(cand, strict)
                                     ELSE RSA_can_be_applied(cand, strict).res
    /\ edges' = IF cand.rule = "RA" THEN edges ELSE RSA_can_be_applied(cand, strict).E
    /\ pc' = "rechecked"
    /\ UNCHANGED <<hist, arrays, others, ninfo, nodes, strict, cand, todo, loc, pre>>

\* The driver rescans the state for further matches.
Rescan ==
    /\ pc \in {"applied", "rechecked"}
    /\ pc = "rechecked" => result # "error"
    /\ pc' = "idle"
    /\ cand' = NoCand
    /\ result' = "false"
    /\ loc' = NoLoc
    /\ pre' = NoPre
    /\ UNCHANGED <<hist, arrays, others, ninfo, nodes, edges, strict, todo>>

Next ==
    \/ CheckRA
    \/ CheckRSA
    \/ Skip
    \/ RA_apply_begin
    \/ RA_apply_step
    \/ RA_apply_end
    \/ RSA_apply_begin
    \/ RSA_apply_step
    \/ RSA_apply_end
    \/ Recheck
    \/ Rescan

Spec == Init /\ [][Next]_vars

(***************************************************************************)
(* Properties                                                              *)
(***************************************************************************)
CandIn == nodes[cand.in]

CandOut == nodes[cand.out]

\* Data nodes of the whole program that reference container a.
DataNodeCount(a) ==
    Cardinality({n \in Elems(nodes) : IsAccess(n) /\ ninfo[n].data = a}) + others[a]

\* Every precondition of the forward rule but the strict-mode one.
RA_OtherPreconditions(x, y) ==
    /\ out_degree(edges, x) = 1
    /\ desc(x).transient
    /\ desc(x).storage = desc(y).storage
    /\ desc(x).kind = desc(y).kind
    /\ desc(x).shape = desc(y).shape
    /\ DataNodeCount(ninfo[x].data) <= 1

\* The region on the edge x -> y is smaller than x's shape in some dimension.
PartialRegion(x, y) ==
    LET e == edges_between(edges, x, y)[1] IN
    /\ e.subset # NoSubset
    /\ \E i \in 1..dims(e.subset) : size(e.subset)[i] # desc(x).shape[i]

C1_Case ==
    /\ pc = "checked" /\ cand.rule = "RA" /\ strict
    /\ RA_OtherPreconditions(CandIn, CandOut)
    /\ PartialRegion(CandIn, CandOut)

\* C1: in strict mode the forward rule refuses a candidate (X, Y) that meets
\* every other precondition when the region on the sole edge X -> Y does not
\* span X's full shape in some dimension.
C1_StrictGating == C1_Case => result = "false"

C1_Witness == C1_Case /\ result = "false"

\* The container the rule of the current candidate would eliminate.
Eliminated == IF cand.rule = "RA" THEN ninfo[CandIn].data ELSE ninfo[CandOut].data

\* C2: a container referenced by two or more data nodes, counted over all
\* states, is never eliminated: can_be_applied of either rule returns false
\* for every candidate that would remove it.
C2_OccurrenceGating ==
    (pc = "checked" /\ DataNodeCount(Eliminated) >= 2) => result = "false"

\* Every precondition of the backward rule but the occurrence one holds: the
\* copy spans the whole destination.
C2_Witness ==
    /\ pc = "checked" /\ cand.rule = "RSA"
    /\ others[Eliminated] >= 1
    /\ in_degree(edges, CandOut) = 1
    /\ desc(CandOut).transient
    /\ desc(CandIn).storage = desc(CandOut).storage
    /\ desc(CandIn).kind = desc(CandOut).kind
    /\ edges_between(edges, CandIn, CandOut)[1].subset = Full(desc(CandOut).shape)
    /\ result = "false"

\* The destination-side region of the connecting edge p -> y as the backward
\* rule computes it, and the producer-side one.
ConnOut(E, p, y) ==
    LET m == edges_between(E, p, y)[1]
        o == IF m.data = ninfo[p].data THEN m.other ELSE m.subset
        i == IF m.data = ninfo[p].data THEN m.subset ELSE m.other
    IN  IF Absent(o) THEN offset(i, i, TRUE) ELSE o

ConnInp(E, p, y) ==
    LET m == edges_between(E, p, y)[1]
        o == IF m.data = ninfo[p].data THEN m.other ELSE m.subset
        i == IF m.data = ninfo[p].data THEN m.subset ELSE m.other
    IN  IF Absent(i) THEN offset(o, o, TRUE) ELSE i

ConnHasRegion(E, p, y) ==
    LET m == edges_between(E, p, y)[1] IN ~Absent(m.subset) \/ ~Absent(m.other)

\* An outgoing edge of y whose region on y's container lies outside out_subset.
Uncovered(E, p, y) ==
    \E e \in Elems(out_edges(E, y)) :
        LET r == IF e.data = ninfo[y].data THEN e.subset ELSE e.other IN
        /\ ~Absent(r)
        /\ dims(r) = dims(ConnOut(E, p, y))
        /\ ~covers(ConnOut(E, p, y), r)

\* C3: when some outgoing edge of Y reads a region of Y's container that the
\* computed out_subset of the edge P -> Y does not cover, the backward rule's
\* can_be_applied returns false.
C3_CoverageRejection ==
    (/\ pc = "checked" /\ cand.rule = "RSA"
     /\ ConnHasRegion(edges, CandIn, CandOut)
     /\ Uncovered(edges, CandIn, CandOut)) => result = "false"

\* The edges of the memlet trees of y's outgoing edges.
TreeEdges(E, y) == UNION {memlet_tree(E, e) : e \in Elems(out_edges(E, y))}

\* [l, u] read at the destination becomes [a + (l - c), a + (u - c)].
Shifted(r, a, c) ==
    [i \in 1..Len(r) |-> <<a[i] + (r[i][1] - c[i]), a[i] + (r[i][2] - c[i])>>]

\* An edge of Y's memlet trees that names Y's container and reads inside the
\* destination-side region [c, c+b) of a connecting edge whose producer-side
\* region [a, a+b) has the same extents.
C4_Reads(pe) ==
    LET inp == ConnInp(pre.edges, loc.in, loc.out)
        out == ConnOut(pre.edges, loc.in, loc.out)
    IN  /\ pe.id \in TreeEdges(pre.edges, loc.out)
        /\ pe.data = ninfo[loc.out].data
        /\ ~Absent(pe.subset)
        /\ dims(pe.subset) = dims(out) /\ dims(inp) = dims(out)
        /\ size(inp) = size(out)
        /\ covers(out, pe.subset)

C4_Rewritten(pe) ==
    \E q \in Elems(edges) :
        /\ q.id = pe.id
        /\ q.data = ninfo[loc.in].data
        /\ q.subset.r = Shifted(pe.subset.r,
                                min_element(ConnInp(pre.edges, loc.in, loc.out)),
                                min_element(ConnOut(pre.edges, loc.in, loc.out)))

\* C4: after the backward rule's apply, every edge of Y's memlet trees that
\* named Y's container and read destination positions [l, u] inside [c, c+b)
\* names P's container and reads [a + (l - c), a + (u - c)], per dimension.
C4_RegionCorrectness ==
    (pc = "applied" /\ cand.rule = "RSA") =>
        \A pe \in Elems(pre.edges) : C4_Reads(pe) => C4_Rewritten(pe)

\* A read at a positive distance d from c, with a # c, has been rewritten.
C4_Witness ==
    /\ pc = "applied" /\ cand.rule = "RSA"
    /\ \E pe \in Elems(pre.edges) :
        /\ C4_Reads(pe) /\ C4_Rewritten(pe)
        /\ LET a == min_element(ConnInp(pre.edges, loc.in, loc.out))
               c == min_element(ConnOut(pre.edges, loc.in, loc.out))
           IN  a[1] # c[1] /\ pe.subset.r[1][1] > c[1] /\ pe.subset.r[1][2] > pe.subset.r[1][1]

\* C5: the applicability check run again for the candidate just applied
\* returns false.
C5_Idempotence == pc = "rechecked" => result = "false"

\* C6: after the forward rule's apply X is gone and Y is present; every
\* former inbound edge of X ends at Y with its source, connectors and memlet;
\* every edge on the memlet path of an inbound edge that named X's container
\* names Y's with its regions unchanged; every other edge but X -> Y keeps
\* its endpoints.
C6_ForwardPost ==
    (pc = "applied" /\ cand.rule = "RA") =>
        LET x      == loc.in
            y      == loc.out
            inb    == {e \in Elems(pre.edges) : e.dst = x}
            onpath == UNION {memlet_path(pre.edges, e) : e \in inb}
        IN  /\ x \notin Elems(nodes) /\ y \in Elems(nodes)
            /\ \A q \in Elems(edges) : q.src # x /\ q.dst # x
            /\ \A e \in inb : \E q \in Elems(edges) :
                    /\ q.id = e.id /\ q.src = e.src /\ q.sconn = e.sconn
                    /\ q.dst = y /\ q.dconn = e.dconn
                    /\ q.data = (IF e.data = ninfo[x].data THEN ninfo[y].data ELSE e.data)
                    /\ q.subset = e.subset /\ q.other = e.other
            /\ \A e \in Elems(pre.edges) :
                    (e.id \in onpath /\ e.data = ninfo[x].data) =>
                        \E q \in Elems(edges) :
                            /\ q.id = e.id /\ q.data = ninfo[y].data
                            /\ q.subset = e.subset /\ q.other = e.other
            /\ \A e \in Elems(pre.edges) :
                    (e \notin inb /\ ~(e.src = x /\ e.dst = y)) =>
                        \E q \in Elems(edges) :
                            /\ q.id = e.id /\ q.src = e.src /\ q.dst = e.dst
                            /\ q.sconn = e.sconn /\ q.dconn = e.dconn

\* X had an inbound edge behind a scope node, so a path of two edges was renamed.
C6_Witness ==
    /\ pc = "applied" /\ cand.rule = "RA"
    /\ loc.in \notin Elems(nodes)
    /\ \E e \in Elems(pre.edges) :
        /\ e.dst = loc.in
        /\ Cardinality(memlet_path(pre.edges, e)) >= 2
        /\ \A id \in memlet_path(pre.edges, e) :
               EdgeById(edges, id).data = ninfo[loc.out].data

\* No candidate of the matcher is accepted by either rule.
Fixpoint ==
    \A c \in Candidates :
        /\ RA_can_be_applied(c, strict) # "true"
        /\ RSA_can_be_applied(c, strict).res # "true"

InScenarioA == ninfo = TestNodes /\ arrays = ScenarioA("Default").arrays

\* The graph of test_out, where B lives in GPU_Global storage.
InTestOut == ninfo = TestNodes /\ arrays = ScenarioA("GPU_Global").arrays

DataNodes == {n \in Elems(nodes) : IsAccess(n)}

C8_NeverRaises == pc = "checked" => result # "error"

\* C9: can_be_applied of either rule leaves the node list, the edges with
\* their endpoints, connectors and memlets, and the container registry as
\* they were, whatever it returns.
C9_ReadOnly ==
    [][((pc = "idle" /\ pc' = "checked") \/ (pc = "applied" /\ pc' = "rechecked")) =>
            /\ nodes' = nodes /\ edges' = edges
            /\ arrays' = arrays /\ others' = others /\ ninfo' = ninfo]_vars

\* The backward check has run on a connecting edge with one region missing,
\* which it had to synthesize, and has returned.
C9_Witness ==
    /\ pc = "checked" /\ cand.rule = "RSA"
    /\ result \in {"true", "false"}
    /\ in_degree(edges, CandOut) = 1 /\ desc(CandOut).transient
    /\ DataNodeCount(ninfo[CandOut].data) <= 1
    /\ LET m == edges_between(edges, CandIn, CandOut)[1]
       IN  Absent(m.other) /\ ~Absent(m.subset) /\ m.subset.r[1][1] > 0

\* C10: while the backward rule's apply runs, P and Y are present and each
\* former outgoing edge of Y leaves Y until it is visited and P afterwards,
\* with its connectors and destination; once apply is done Y is gone and all
\* of them leave P; an edge of their memlet trees that neither names Y's
\* container nor carries an other-side region keeps its memlet as it was.
C10_BackwardMigration ==
    (cand.rule = "RSA" /\ pc \in {"apply", "applied"}) =>
        LET p    == loc.in
            y    == loc.out
            outs == {e \in Elems(pre.edges) : e.src = y}
        IN  /\ p \in Elems(nodes)
            /\ (y \in Elems(nodes)) <=> (pc = "apply")
            /\ \A e \in outs : \E q \in Elems(edges) :
                    /\ q.id = e.id /\ q.sconn = e.sconn
                    /\ q.dst = e.dst /\ q.dconn = e.dconn
                    /\ q.src = (IF pc = "apply" /\ e.id \in Elems(todo) THEN y ELSE p)
            /\ \A e \in Elems(pre.edges) :
                    (/\ pc = "applied" /\ e.id \in TreeEdges(pre.edges, y)
                     /\ e.data # ninfo[y].data /\ Absent(e.other)) =>
                        \E q \in Elems(edges) :
                            /\ q.id = e.id /\ q.data = e.data
                            /\ q.subset = e.subset /\ q.other = e.other

\* Y had two outgoing edges, one of them naming another container with no
\* other-side region, and apply has finished.
C10_Witness ==
    /\ cand.rule = "RSA" /\ pc = "applied"
    /\ loc.out \notin Elems(nodes)
    /\ Cardinality({e \in Elems(pre.edges) : e.src = loc.out}) >= 2
    /\ \E e \in Elems(pre.edges) :
        /\ e.src = loc.out /\ e.data # ninfo[loc.out].data /\ Absent(e.other)
        /\ \E q \in Elems(edges) : q.id = e.id /\ q.src = loc.in /\ q.subset = e.subset

\* The container the other-side region of edge e refers to: the one of the
\* access-node endpoint that the memlet does not name.
OtherData(e) ==
    IF IsAccess(e.src) /\ ninfo[e.src].data # e.data THEN ninfo[e.src].data
    ELSE IF IsAccess(e.dst) THEN ninfo[e.dst].data
    ELSE ninfo[e.src].data

\* Both regions of edge e, where present, have the rank of the container they
\* refer to and lie within its shape.
WellFormedEdge(e) ==
    /\ Absent(e.subset) \/ Within(e.subset, arrays[e.data].shape)
    /\ Absent(e.other) \/ Within(e.other, arrays[OtherData(e)].shape)

WellFormed(E) == \A e \in Elems(E) : WellFormedEdge(e)

\* The region the backward rule rewrote on the edge that was pe, if any.
RewrittenRegion(pe) ==
    LET q == EdgeById(edges, pe.id) IN
    IF pe.data = ninfo[loc.out].data THEN q.subset
    ELSE IF ~Absent(pe.other) THEN q.other
    ELSE NoSubset

RewrittenInside ==
    \A pe \in Elems(pre.edges) :
        (/\ pe.id \in TreeEdges(pre.edges, loc.out)
         /\ ~Absent(RewrittenRegion(pe))) =>
            /\ dims(RewrittenRegion(pe)) = dims(loc.inp)
            /\ covers(loc.inp, RewrittenRegion(pe))

\* C11: between applies, each of them guarded by a can_be_applied that
\* returned true, every edge region has the rank of the container it refers
\* to and lies within that container's shape, and every region rewritten by
\* the backward rule lies inside the producer-side region inp_subset of the
\* elided copy.
C11_WellFormedPreserved ==
    /\ pc \in {"idle", "checked", "applied", "rechecked"} => WellFormed(edges)
    /\ (pc = "applied" /\ cand.rule = "RSA") => RewrittenInside

\* The node the finished apply removed, and the edges that joined the
\* candidate's two nodes before it ran.
RemovedNode == IF cand.rule = "RA" THEN loc.in ELSE loc.out

ConnectingEdges == {e \in Elems(pre.edges) : e.src = loc.in /\ e.dst = loc.out}

EdgeIds(E) == {e.id : e \in Elems(E)}

\* One transient data node and the one connecting edge are gone; nothing
\* else was removed and nothing was added.
ApplyRemovesOne ==
    /\ RemovedNode \in TransientData(pre.nodes)
    /\ Len(nodes) = Len(pre.nodes) - 1
    /\ Elems(nodes) = Elems(pre.nodes) \ {RemovedNode}
    /\ Cardinality(ConnectingEdges) = 1
    /\ Len(edges) = Len(pre.edges) - 1
    /\ EdgeIds(edges) = EdgeIds(pre.edges) \ {e.id : e \in ConnectingEdges}

\* C12: every apply of either rule, guarded by can_be_applied, removes exactly
\* one data node, a transient one, and exactly one edge, the connecting edge,
\* and adds no node and no edge; so the applies completed plus the transient
\* data nodes left always equal the transient data nodes of the initial
\* graph, no run holds more applies than that, and once that many applies are
\* done no rule is applicable.
C12_BoundedApplies ==
    /\ pc = "applied" => ApplyRemovesOne
    /\ hist.applies + Cardinality(TransientData(nodes)) = hist.transients
    /\ hist.applies <= hist.transients
    /\ (pc = "idle" /\ hist.applies = hist.transients) => Fixpoint

\* Two guarded applies have run on a graph and no rule is applicable any more.
C12_Witness ==
    /\ pc = "idle" /\ hist.applies = 2 /\ Fixpoint
    /\ Len(nodes) < 7

====
